---- MODULE Spec2Model ----
(***************************************************************************)
(* Issue reporting (ReportIssue.handleSubmit) and the citizen dashboard    *)
(* (CitizenDashboard.fetchIssues) over the browser's localStorage.         *)
(*                                                                         *)
(* Units and abstractions                                                  *)
(*  - a priority rating is kept in tenths (2.5 is 25): every value the     *)
(*    code returns is Math.round(..)/10, a whole number of tenths.  The    *)
(*    argument of Math.round is (100*severityScore + min(L,200))/10; its   *)
(*    IEEE double value rounds to the same integer as the exact quotient   *)
(*    for every severity and every L in 0..199 (for L >= 200 it is the     *)
(*    integer 10*severityScore + 20), so exact arithmetic is what the      *)
(*    build computes.                                                      *)
(*  - a description is kept by its length (description.length), the only   *)
(*    thing the code reads from it besides its emptiness.                  *)
(*  - localStorage holds JSON text; the model keeps the parsed document:   *)
(*    hasIssues says whether the key "issuesData" holds a document with    *)
(*    an "issues" member (getItem returns null on a fresh browser, and     *)
(*    the code then parses "{}").                                          *)
(*  - a browser tab is a session: each has its own React state, all share  *)
(*    localStorage.                                                        *)
(***************************************************************************)
EXTENDS Integers, Sequences, FiniteSets

VARIABLES
    issuesData,   \* localStorage "issuesData": [hasIssues, issues]
    usersData,    \* localStorage "usersData": [citizens]
    user,         \* per tab: useAuth().user, the in-memory snapshot
    issues,       \* per tab: CitizenDashboard state `issues`
    topCitizens,  \* per tab: CitizenDashboard state `topCitizens`
    outcome,      \* what the last handler run was given and how it ended
    xp0,          \* history: each citizen's stored xp_points at the start
    submitted,    \* history: successful submissions per tab
    scored        \* the last result of calculatePriorityRating, if any

vars == <<issuesData, usersData, user, issues, topCitizens, outcome,
          xp0, submitted, scored>>

----------------------------------------------------------------------------
(* Bounds of the model *)

MaxIssues == 3
MaxDescLen == 210
NumCitizens == 6

(* Program constants *)

XPReward == 50
TopN == 5
DescriptionCap == 2

Tabs == {"t1", "t2"}
Severities == {"low", "medium", "high"}
ReporterIds == {1, 2}
StartXPs == {0, 50}

Min(a, b) == IF a <= b THEN a ELSE b

----------------------------------------------------------------------------
(* PriorityScorer: calculatePriorityRating *)

severityScore(severity) ==
    IF severity = "high" THEN 3 ELSE IF severity = "medium" THEN 2 ELSE 1

\* Math.min(description.length / 100, 2), in hundredths
descriptionScoreUncapped(len) == len
descriptionScore(len) == Min(len, 100 * DescriptionCap)

\* Math.round of the non-negative quotient num/den: nearest integer, a half
\* rounds up
MathRoundTruncating(num, den) == num \div den
MathRound(num, den) == (2 * num + den) \div (2 * den)

\* the rating in tenths: Math.round((severityScore + descriptionScore) * 10)
calculatePriorityRating(severity, len) ==
    MathRound(100 * severityScore(severity) + descriptionScore(len), 10)

----------------------------------------------------------------------------
(* ReportIssue.handleSubmit *)

GoodForm ==
    [title |-> "Pothole", descLen |-> 120, severity |-> "high",
     location |-> "12.9, 77.5", verified |-> TRUE]

NoForm ==
    [title |-> "", descLen |-> 0, severity |-> "", location |-> "",
     verified |-> FALSE]

\* The forms submitted: complete, one field left out, nothing filled in.
Forms ==
    {GoodForm, NoForm,
     [GoodForm EXCEPT !.title = ""], [GoodForm EXCEPT !.descLen = 0],
     [GoodForm EXCEPT !.severity = ""], [GoodForm EXCEPT !.location = ""],
     [GoodForm EXCEPT !.verified = FALSE]}

\* the guard of line 43
isMissingNoLocation(form) ==
    \/ form.title = ""
    \/ form.descLen = 0
    \/ form.severity = ""
    \/ ~form.verified
isMissing(form) ==
    \/ form.title = ""
    \/ form.descLen = 0
    \/ form.severity = ""
    \/ ~form.verified
    \/ form.location = ""

\* the object literal of lines 64-78 (image_url and created_at left out)
newIssue(rnd, form, u) ==
    [id |-> rnd,
     title |-> form.title,
     descLen |-> form.descLen,
     status |-> "pending",
     severity |-> form.severity,
     location |-> form.location,
     reporter_id |-> u.id,
     solver_id |-> "null",
     solved_at |-> "null",
     priorityRating |-> calculatePriorityRating(form.severity, form.descLen)]

\* Math.random().toString(): any value may come out, one an earlier issue got
\* included.  Only equality of ids is ever observed, so values are named in
\* order of first use: the ids in the store, or the first unused number.
RandomValues(data) ==
    LET used == {data.issues[i].id : i \in DOMAIN data.issues}
    IN used \cup {Cardinality(used) + 1}

\* existingData.issues || []
existingIssues(data) == IF data.hasIssues THEN data.issues ELSE <<>>

\* { issues: [...(existingData.issues || []), newIssue] }
updatedIssuesReplacing(data, issue) ==
    [hasIssues |-> TRUE, issues |-> <<issue>>]
updatedIssues(data, issue) ==
    [hasIssues |-> TRUE, issues |-> Append(existingIssues(data), issue)]

\* (user?.xp_points || 0) + 50
newXPSmall(u) == u.xp_points + 10
newXP(u) == u.xp_points + XPReward

\* The try block, lines 52-97: the side effects that have run when control
\* leaves it.  "read" is getItem/JSON.parse throwing at line 81, "write" is
\* setItem throwing at line 87 (a full quota); either one jumps to the catch
\* of line 98, before the XP update of lines 90-91.
tryBlockEffectsCreditFirst(fault) ==
    IF fault = "none" THEN {"persist", "credit"} ELSE {"credit"}
tryBlockEffects(fault) ==
    IF fault = "none" THEN {"persist", "credit"} ELSE {}

\* AuthContext.updateUserXP(userId, newValue): the stored user's xp_points and
\* the calling session's snapshot both become newValue
setStoredXP(data, userId, xp) ==
    [citizens |->
        [i \in DOMAIN data.citizens |->
            IF data.citizens[i].id = userId
            THEN [data.citizens[i] EXCEPT !.xp_points = xp]
            ELSE data.citizens[i]]]
setSessionXP(sessions, t, xp) == [sessions EXCEPT ![t].xp_points = xp]

\* Lines 41-108.  The page is shown to a logged-in citizen (user!.id).  A
\* failed submission shows a toast and returns; a successful one ends with
\* navigate("/citizen/dashboard"), whose page load is Fetch below.  The guard
\* on MaxIssues bounds the store.
handleSubmit(t, form, fault, rnd) ==
    IF isMissing(form)
    THEN /\ outcome' = [tab |-> t, op |-> "submit", result |-> "invalid",
                        toast |-> "Missing fields", form |-> form,
                        fault |-> "none"]
         /\ UNCHANGED <<issuesData, usersData, user, submitted>>
    ELSE LET eff == tryBlockEffects(fault)
             issue == newIssue(rnd, form, user[t])
         IN /\ "persist" \in eff => Len(existingIssues(issuesData)) < MaxIssues
            /\ issuesData' = IF "persist" \in eff
                             THEN updatedIssues(issuesData, issue)
                             ELSE issuesData
            /\ usersData' = IF "credit" \in eff
                            THEN setStoredXP(usersData, user[t].id, newXP(user[t]))
                            ELSE usersData
            /\ user' = IF "credit" \in eff
                       THEN setSessionXP(user, t, newXP(user[t]))
                       ELSE user
            /\ submitted' = IF fault = "none"
                            THEN [submitted EXCEPT ![t] = @ + 1]
                            ELSE submitted
            /\ outcome' = [tab |-> t, op |-> "submit",
                           result |-> IF fault = "none" THEN "ok" ELSE "error",
                           toast |-> IF fault = "none" THEN "Report submitted"
                                     ELSE "Submission failed",
                           form |-> form, fault |-> fault]

Submit ==
    /\ \E t \in Tabs, form \in Forms, fault \in {"none", "read", "write"},
          rnd \in RandomValues(issuesData) :
          handleSubmit(t, form, fault, rnd)
    /\ UNCHANGED <<issues, topCitizens, xp0, scored>>

----------------------------------------------------------------------------
(* CitizenDashboard.fetchIssues *)

\* issue.reporter_id === user?.id
isReportedByOther(issue, uid) == issue.reporter_id # uid
isReportedBy(issue, uid) == issue.reporter_id = uid

\* Array.prototype.filter: the elements that pass, in their order
RECURSIVE userIssues(_, _)
userIssues(list, uid) ==
    IF list = <<>> THEN <<>>
    ELSE IF isReportedBy(Head(list), uid)
         THEN <<Head(list)>> \o userIssues(Tail(list), uid)
         ELSE userIssues(Tail(list), uid)

\* (a, b) => b.xp_points - a.xp_points
compareAscending(a, b) == a.xp_points - b.xp_points
compareFn(a, b) == b.xp_points - a.xp_points

\* Array.prototype.sort is stable (ECMAScript 2019): an element goes before
\* the first one the comparator puts strictly after it
RECURSIVE insertSorted(_, _)
insertSorted(sorted, x) ==
    IF sorted = <<>> THEN <<x>>
    ELSE IF compareFn(Head(sorted), x) > 0
         THEN <<x>> \o sorted
         ELSE <<Head(sorted)>> \o insertSorted(Tail(sorted), x)

RECURSIVE sort(_)
sort(list) ==
    IF list = <<>> THEN <<>>
    ELSE insertSorted(sort(SubSeq(list, 1, Len(list) - 1)), list[Len(list)])

\* Array.prototype.slice(0, end)
slice(list, end) == SubSeq(list, 1, Min(end, Len(list)))

\* [...storedData.citizens].sort(...).slice(0, 5)
sortedCitizens(data) == slice(sort(data.citizens), TopN)

\* The effect of lines 43-63.  "readIssues" and "readUsers" are the first and
\* the second getItem/JSON.parse throwing; data.issues.filter throws a
\* TypeError when the document has no "issues" member.  setIssues has run
\* when the second read throws.  The catch of line 57 only logs.
fetchIssues(t, fault) ==
    LET failsIssues == fault = "readIssues" \/ ~issuesData.hasIssues
        failsUsers == failsIssues \/ fault = "readUsers"
    IN /\ issues' = IF failsIssues THEN issues
                    ELSE [issues EXCEPT
                            ![t] = userIssues(issuesData.issues, user[t].id)]
       /\ topCitizens' = IF failsUsers THEN topCitizens
                         ELSE [topCitizens EXCEPT ![t] = sortedCitizens(usersData)]
       /\ outcome' = [tab |-> t, op |-> "fetch",
                      result |-> IF failsUsers THEN "error" ELSE "ok",
                      toast |-> "none", form |-> NoForm, fault |-> fault]

Fetch ==
    /\ \E t \in Tabs, fault \in {"none", "readIssues", "readUsers"} :
          fetchIssues(t, fault)
    /\ UNCHANGED <<issuesData, usersData, user, xp0, submitted, scored>>

----------------------------------------------------------------------------
(* Specifications *)

NoOutcome ==
    [tab |-> "t1", op |-> "none", result |-> "ok", toast |-> "none",
     form |-> NoForm, fault |-> "none"]

Citizen(i, xp) == [id |-> i, xp_points |-> xp]

\* Every tab shows a logged-in citizen whose snapshot is the stored record.
\* (Tabs are interchangeable: t1 is the one of citizen 1.)
SessionsOf(data) ==
    {u \in [Tabs -> {data.citizens[i] : i \in DOMAIN data.citizens}] :
        /\ \A t \in Tabs : u[t].id \in ReporterIds
        /\ u["t1"].id = 1}

\* Submission: a fresh browser (no "issuesData" yet), the reporters registered.
Init ==
    /\ issuesData = [hasIssues |-> FALSE, issues |-> <<>>]
    /\ \E xs \in [ReporterIds -> StartXPs] :
          usersData = [citizens |-> [i \in ReporterIds |-> Citizen(i, xs[i])]]
    /\ user \in SessionsOf(usersData)
    /\ issues = [t \in Tabs |-> <<>>]
    /\ topCitizens = [t \in Tabs |-> <<>>]
    /\ outcome = NoOutcome
    /\ xp0 = [i \in ReporterIds |-> usersData.citizens[i].xp_points]
    /\ submitted = [t \in Tabs |-> 0]
    /\ scored = <<>>

Next == Submit

Spec == Init /\ [][Next]_vars

\* Dashboard: any store of up to MaxIssues issues and NumCitizens citizens.
StoredIssues ==
    UNION {{[k \in 1..n |-> newIssue(k, GoodForm, Citizen(by[k], 0))] :
               by \in [1..n -> ReporterIds]} : n \in 0..MaxIssues}

StoredCitizens ==
    UNION {{[i \in 1..n |-> Citizen(i, xs[i])] : xs \in [1..n -> StartXPs]} :
              n \in 2..NumCitizens}

DashInit ==
    /\ \/ issuesData = [hasIssues |-> FALSE, issues |-> <<>>]
       \/ \E l \in StoredIssues : issuesData = [hasIssues |-> TRUE, issues |-> l]
    /\ \E cs \in StoredCitizens : usersData = [citizens |-> cs]
    /\ user \in SessionsOf(usersData)
    /\ issues = [t \in Tabs |-> <<>>]
    /\ topCitizens = [t \in Tabs |-> <<>>]
    /\ outcome = NoOutcome
    /\ xp0 = [i \in ReporterIds |-> usersData.citizens[i].xp_points]
    /\ submitted = [t \in Tabs |-> 0]
    /\ scored = <<>>

DashNext == Fetch

DashSpec == DashInit /\ [][DashNext]_vars

\* Scoring: calculatePriorityRating applied to any severity and length.
Score ==
    /\ \E s \in Severities, len \in 0..MaxDescLen :
          scored' = <<[severity |-> s, len |-> len,
                       rating |-> calculatePriorityRating(s, len)]>>
    /\ UNCHANGED <<issuesData, usersData, user, issues, topCitizens, outcome,
                   xp0, submitted>>

ScoreInit ==
    /\ issuesData = [hasIssues |-> FALSE, issues |-> <<>>]
    /\ usersData = [citizens |-> [i \in ReporterIds |-> Citizen(i, 0)]]
    /\ user = [t \in Tabs |-> Citizen(1, 0)]
    /\ issues = [t \in Tabs |-> <<>>]
    /\ topCitizens = [t \in Tabs |-> <<>>]
    /\ outcome = NoOutcome
    /\ xp0 = [i \in ReporterIds |-> 0]
    /\ submitted = [t \in Tabs |-> 0]
    /\ scored = <<>>

ScoreNext == Score

ScoreSpec == ScoreInit /\ [][ScoreNext]_vars

----------------------------------------------------------------------------
(* What the claims speak of *)

\* the stored xp_points of citizen uid
StoredXP(data, uid) ==
    LET i == CHOOSE i \in DOMAIN data.citizens : data.citizens[i].id = uid
    IN data.citizens[i].xp_points

\* a report with every required field filled in and the attestation given
WellFormed(form) ==
    /\ form.title # ""
    /\ form.descLen > 0
    /\ form.severity \in Severities
    /\ form.location # ""
    /\ form.verified

\* the step is a run of handleSubmit on a well-formed report, storage working
GoodSubmit ==
    /\ outcome'.op = "submit"
    /\ WellFormed(outcome'.form)
    /\ outcome'.fault = "none"

\* the stored issue list grows by exactly one issue, a pending one
OneIssueAppended ==
    LET old == existingIssues(issuesData)
        new == existingIssues(issuesData')
    IN /\ Len(new) = Len(old) + 1
       /\ SubSeq(new, 1, Len(old)) = old
       /\ new[Len(new)].status = "pending"
       /\ new[Len(new)].reporter_id = user[outcome'.tab].id

TabsOf(uid) == {t \in Tabs : user[t].id = uid}

RECURSIVE SumSubmitted(_)
SumSubmitted(ts) ==
    IF ts = {} THEN 0
    ELSE LET t == CHOOSE t \in ts : TRUE
         IN submitted[t] + SumSubmitted(ts \ {t})

NumIssuesBy(uid) ==
    Cardinality({i \in DOMAIN existingIssues(issuesData) :
                    existingIssues(issuesData)[i].reporter_id = uid})

----------------------------------------------------------------------------
(* C1 *)

\* C1 as stated: a well-formed submission, storage working, raises the
\* reporter's stored xpPoints by exactly 50 and appends exactly one pending
\* issue to the stored list.
C1_AsStated ==
    [][GoodSubmit =>
        LET uid == user[outcome'.tab].id
        IN /\ StoredXP(usersData', uid) = StoredXP(usersData, uid) + 50
           /\ OneIssueAppended]_vars

\* C1 amended: a well-formed submission, storage working, appends exactly one
\* pending issue to the stored list and sets the reporter's xpPoints, in the
\* session and in the store, to the session's value plus 50: a rise of the
\* stored balance by exactly 50 whenever the session's value is the stored one.
C1_SubmitCreditsSessionXP ==
    [][GoodSubmit =>
        LET t == outcome'.tab
            uid == user[t].id
        IN /\ user'[t].xp_points = user[t].xp_points + 50
           /\ StoredXP(usersData', uid) = user[t].xp_points + 50
           /\ user[t].xp_points = StoredXP(usersData, uid)
                => StoredXP(usersData', uid) = StoredXP(usersData, uid) + 50
           /\ OneIssueAppended
           /\ outcome'.toast = "Report submitted"]_vars

C1_Witness ==
    /\ outcome.op = "submit"
    /\ outcome.result = "ok"
    /\ WellFormed(outcome.form)
    /\ Len(existingIssues(issuesData)) = 3
    /\ StoredXP(usersData, user[outcome.tab].id)
         = xp0[user[outcome.tab].id] + 150

----------------------------------------------------------------------------
(* C2 *)

\* C2: a submission with title, description, severity or location empty, or
\* without the attestation, leaves the issue store and the XP ledger as they
\* were and ends in the "Missing fields" notice.
C2_InvalidSubmitChangesNothing ==
    [][(outcome'.op = "submit" /\ ~WellFormed(outcome'.form)) =>
        /\ issuesData' = issuesData
        /\ usersData' = usersData
        /\ user' = user
        /\ outcome'.result = "invalid"
        /\ outcome'.toast = "Missing fields"]_vars

C2_Witness ==
    /\ outcome.op = "submit"
    /\ outcome.result = "invalid"
    /\ outcome.form.location = ""
    /\ outcome.form.title # ""
    /\ Len(existingIssues(issuesData)) > 0

----------------------------------------------------------------------------
(* C3 *)

\* C3: when the read or the write of the issue store fails during a
\* submission, the XP credit does not run: the reporter's xpPoints, stored and
\* in the session, are unchanged and no issue is added.
C3_NoCreditWithoutPersist ==
    [][(outcome'.op = "submit" /\ outcome'.fault \in {"read", "write"}) =>
        /\ usersData' = usersData
        /\ user' = user
        /\ issuesData' = issuesData
        /\ outcome'.result = "error"]_vars

C3_Witness ==
    /\ outcome.op = "submit"
    /\ outcome.fault = "write"
    /\ outcome.result = "error"
    /\ WellFormed(outcome.form)
    /\ Len(existingIssues(issuesData)) > 0

----------------------------------------------------------------------------
(* C9 *)

\* C9: no two issues in the store have the same id.
C9_IdsUnique ==
    \A i, j \in DOMAIN existingIssues(issuesData) :
        i # j => existingIssues(issuesData)[i].id # existingIssues(issuesData)[j].id

----------------------------------------------------------------------------
(* C10 *)

C10_Ledger ==
    /\ \A t \in Tabs :
          user[t].xp_points = xp0[user[t].id] + 50 * submitted[t]
    /\ \A uid \in ReporterIds :
          /\ NumIssuesBy(uid) = SumSubmitted(TabsOf(uid))
          /\ \/ /\ SumSubmitted(TabsOf(uid)) = 0
                /\ StoredXP(usersData, uid) = xp0[uid]
             \/ \E t \in TabsOf(uid) :
                   /\ submitted[t] > 0
                   /\ StoredXP(usersData, uid) = user[t].xp_points
          /\ (\E t \in TabsOf(uid) : submitted[t] = SumSubmitted(TabsOf(uid)))
                => StoredXP(usersData, uid)
                     = xp0[uid] + 50 * SumSubmitted(TabsOf(uid))
    /\ (outcome.op = "submit" /\ outcome.result = "ok")
          => StoredXP(usersData, user[outcome.tab].id) = user[outcome.tab].xp_points

----------------------------------------------------------------------------
(* C4, C5: the priority rating, in tenths *)

\* the table of the specification
TableScore(severity) ==
    CASE severity = "low" -> 1
      [] severity = "medium" -> 2
      [] severity = "high" -> 3

\* tenths is round(x * 10) for x = score + min(len/100, 2): the integer whose
\* distance to 10*x is at most a half, the upper one of two
IsRounded(tenths, score, len) ==
    LET x1000 == 1000 * score + 10 * Min(len, 200)
    IN /\ 100 * tenths - 50 <= x1000
       /\ x1000 < 100 * tenths + 50

\* C4: for every severity and description length the rating is
\* round((severityScore + min(L/100, 2)) * 10) / 10 with low = 1, medium = 2,
\* high = 3; score(high, "") = 3.0, score(low, "") = 1.0 and
\* score(medium, 50 characters) = 2.5.
C4_RatingFormula ==
    \A i \in DOMAIN scored :
        LET r == scored[i]
        IN /\ IsRounded(r.rating, TableScore(r.severity), r.len)
           /\ (r.severity = "high" /\ r.len = 0) => r.rating = 30
           /\ (r.severity = "low" /\ r.len = 0) => r.rating = 10
           /\ (r.severity = "medium" /\ r.len = 50) => r.rating = 25

C4_Witness ==
    \E i \in DOMAIN scored :
        scored[i].severity = "medium" /\ scored[i].len = 155 /\ scored[i].rating = 36

\* C5: for every severity the rating does not decrease as the description
\* grows, and from 200 characters on it is severityScore + 2, the rating of
\* 200 characters.
C5_MonotoneAndCapped ==
    \A i \in DOMAIN scored :
        LET r == scored[i]
        IN /\ \A shorter \in 0..r.len :
                 calculatePriorityRating(r.severity, shorter) <= r.rating
           /\ r.len >= 200 =>
                 /\ r.rating = 10 * (TableScore(r.severity) + 2)
                 /\ r.rating = calculatePriorityRating(r.severity, 200)

C5_Witness ==
    \E i \in DOMAIN scored :
        scored[i].severity = "high" /\ scored[i].len = 209 /\ scored[i].rating = 50

----------------------------------------------------------------------------
(* C6: the leaderboard *)

\* the place of stored citizen i in the stable descending order
Rank(citizens, i) ==
    1 + Cardinality({j \in DOMAIN citizens :
                        \/ citizens[j].xp_points > citizens[i].xp_points
                        \/ /\ citizens[j].xp_points = citizens[i].xp_points
                           /\ j < i})

IsLeaderboard(top, citizens) ==
    /\ Len(top) <= 5
    /\ Len(top) = Min(5, Len(citizens))
    /\ \A k \in 1..(Len(top) - 1) : top[k].xp_points >= top[k + 1].xp_points
    /\ \A i \in DOMAIN citizens :
          Rank(citizens, i) <= 5 => top[Rank(citizens, i)] = citizens[i]

\* the step is a dashboard load that reached setTopCitizens
LeaderboardLoaded == outcome'.op = "fetch" /\ outcome'.result = "ok"

\* C6: the leaderboard a dashboard load computes holds at most 5 users, in
\* descending order of xpPoints, equal xpPoints in stored order: the first 5 of
\* the stable descending order of all stored citizens.
C6_LeaderboardTop5Stable ==
    [][LeaderboardLoaded =>
        IsLeaderboard(topCitizens'[outcome'.tab], usersData.citizens)]_vars

\* six citizens, the last one with more xpPoints than the first, a tie inside
\* the leaderboard and a tie across its end
C6_Witness ==
    /\ outcome.op = "fetch"
    /\ outcome.result = "ok"
    /\ Len(usersData.citizens) = 6
    /\ usersData.citizens[6].xp_points > usersData.citizens[1].xp_points
    /\ LET top == topCitizens[outcome.tab]
       IN /\ Len(top) = 5
          /\ top[1].id = 6
          /\ top[4].xp_points = top[5].xp_points
          /\ \E i \in DOMAIN usersData.citizens :
                /\ usersData.citizens[i].xp_points = top[5].xp_points
                /\ \A k \in DOMAIN top : top[k].id # usersData.citizens[i].id

----------------------------------------------------------------------------
(* C7: the personal report list *)

\* the stored positions of the issues of reporter uid
PositionsOf(list, uid) == {i \in DOMAIN list : list[i].reporter_id = uid}

IsReportListOf(shown, list, uid) ==
    /\ Len(shown) = Cardinality(PositionsOf(list, uid))
    /\ \A i \in PositionsOf(list, uid) :
          shown[Cardinality({j \in PositionsOf(list, uid) : j <= i})] = list[i]

\* the step is a dashboard load that reached setIssues
ReportListLoaded ==
    /\ outcome'.op = "fetch"
    /\ outcome'.fault # "readIssues"
    /\ issuesData.hasIssues

\* C7: the report list a dashboard load computes for a user holds exactly the
\* stored issues of that reporter, in stored order; the load changes no store,
\* and a second load right after it shows the same list.
C7_ReportListExactAndIdempotent ==
    [][ReportListLoaded =>
        LET t == outcome'.tab
        IN /\ IsReportListOf(issues'[t], issuesData.issues, user[t].id)
           /\ issuesData' = issuesData
           /\ usersData' = usersData
           /\ (/\ outcome.op = "fetch"
               /\ outcome.tab = t
               /\ outcome.fault # "readIssues") => issues'[t] = issues[t]]_vars

\* a list of one's own first and last issue, another reporter's in between
C7_Witness ==
    /\ outcome.op = "fetch"
    /\ outcome.result = "ok"
    /\ issuesData.hasIssues
    /\ Len(issuesData.issues) = 3
    /\ LET t == outcome.tab
       IN /\ issuesData.issues[2].reporter_id # user[t].id
          /\ issues[t] = <<issuesData.issues[1], issuesData.issues[3]>>

----------------------------------------------------------------------------
(* C8 *)

\* C8: whenever a submission or a dashboard load ends in an error, a notice is
\* shown to the user.
C8_EveryFailureNoticed ==
    outcome.result \in {"invalid", "error"} => outcome.toast # "none"

====
